---- MODULE Spec2Model ----
(***************************************************************************)
(* Measured-move strategy: the ATR-adaptive zigzag pivot detector          *)
(* (indicators.py), the A-B-C pattern matcher / projector                  *)
(* (strategy.py, class MeasuredMoveStrategy) and the batch scan loops      *)
(* (daily_scan.py, batch_run.py, app.py).                                  *)
(*                                                                         *)
(* Numbers.  Prices and volumes are integers.  Every float quotient of the *)
(* code is kept as the pair [n, d] of the dividend and the divisor the     *)
(* code divides by, and compared by cross-multiplication, so the model     *)
(* computes in exact rationals what the code computes in IEEE doubles      *)
(* (rounding at exact ties is not modelled).  The EMA, whose exact         *)
(* numerators outgrow the integers of the model checker, is kept in fixed  *)
(* point.  Bar indexes are 0-based as in the code; TLA+ sequences are      *)
(* 1-based, so bar i is df[i + 1].  A pandas timestamp label is modelled   *)
(* by the bar index it labels (labels are unique and ascending).           *)
(***************************************************************************)
EXTENDS Integers, Sequences, FiniteSets

VARIABLES
    df,           \* self.df: the bar series
    pivots,       \* self.pivots: the bar-aligned pivot prices (None before analyze)
    pivot_types,  \* self.pivot_types: the bar-aligned pivot types
    moves,        \* self.moves
    last_args,    \* the arguments of the latest analyze call (None before it)
    new_moves,    \* history: the Moves the latest analyze call created
    ncalls,       \* analyze calls made on the object
    active,       \* the latest result of get_active_moves
    det,          \* a zigzag_pivots call in progress: its arguments, the
                  \* loop index and the loop's locals (None when none runs)
    scan          \* a batch scan in progress (None when none runs)

vars == <<df, pivots, pivot_types, moves, last_args, new_moves, ncalls, active,
          det, scan>>

-----------------------------------------------------------------------------
(* Bounds of the model.                                                    *)

\* longest bar series drawn over the whole bar alphabet
MaxBars == 5
\* longest head of a series that then stays flat (its last bar repeated)
MaxHead == 3
\* a flat-tailed series has ATR_PERIOD + k bars, k in 0..MaxPad
MaxPad == 1
\* analyze calls made on one strategy object
MaxCalls == 2
\* fixed-point scale of the EMA
EMA_SCALE == 10000

-----------------------------------------------------------------------------
(* Program constants.                                                      *)

ATR_PERIOD == 14
ATR_TAIL == 30
EMA_SPAN == 200
RSI_PERIOD == 14
RSI_OVERBOUGHT == 70
RSI_OVERSOLD == 30
SCAN_WINDOW == 5
ACTIVE_MOVES == 5

-----------------------------------------------------------------------------
(* Arithmetic helpers.                                                     *)

Abs(x) == IF x < 0 THEN -x ELSE x

Max2(x, y) == IF y > x THEN y ELSE x

\* the float quotient n / d, kept as the code's dividend and divisor
Quot(n, d) == [n |-> n, d |-> d]

\* q < c1 / c2 for a quotient q with q.d # 0 and c2 > 0
QLt(q, c1, c2) ==
    IF q.d > 0 THEN q.n * c2 < c1 * q.d ELSE q.n * c2 > c1 * q.d

\* q > c1 / c2 for a quotient q with q.d # 0 and c2 > 0
QGt(q, c1, c2) ==
    IF q.d > 0 THEN q.n * c2 > c1 * q.d ELSE q.n * c2 < c1 * q.d

\* q = c1 / c2 as rationals (q.d # 0, c2 # 0)
QEq(q, c1, c2) == q.n * c2 = c1 * q.d

\* q >= 0 as a float: a finite, non-negative quotient
QNonNeg(q) == q.d # 0 /\ ~QLt(q, 0, 1)

RECURSIVE SumTo(_, _, _)
\* f[lo] + ... + f[hi]
SumTo(f, lo, hi) == IF lo > hi THEN 0 ELSE f[hi] + SumTo(f, lo, hi - 1)

-----------------------------------------------------------------------------
(* Bars.                                                                   *)

Bar(h, l, c, v) == [high |-> h, low |-> l, close |-> c, volume |-> v]

\* the bar alphabet the series are drawn over
BarSet ==
    { Bar(100, 100, 100, 10), Bar(130, 120, 125, 20), Bar(150, 20, 100, 30) }

\* all series of 1..n bars over S
SeriesUpTo(S, n) == UNION { [1..k -> S] : k \in 1..n }

\* s continued flat (its last bar repeated) to k bars
FlatTail(s, k) == [j \in 1..k |-> IF j <= Len(s) THEN s[j] ELSE s[Len(s)]]

\* the bar series a strategy may be constructed over (never empty:
\* fetch_data raises on an empty table)
BarSeries ==
    SeriesUpTo(BarSet, MaxBars)
    \cup { Append(FlatTail(s, MaxBars), b) :
             s \in SeriesUpTo(BarSet, MaxHead), b \in BarSet }
    \cup { FlatTail(s, ATR_PERIOD + k) :
             s \in SeriesUpTo(BarSet, MaxHead), k \in 0..MaxPad }

-----------------------------------------------------------------------------
(* indicators.py                                                           *)

\* a float series holds <<v>> at a defined entry and NaN elsewhere
NaN == <<>>

\* true range of bar i (0-based); max(axis=1) skips the NaN of bar 0
true_range(bars, i) ==
    LET b == bars[i + 1]
    IN  IF i = 0 THEN b.high - b.low
        ELSE LET close == bars[i].close
             IN  Max2(Max2(b.high - b.low, Abs(b.high - close)),
                      Abs(b.low - close))

\* ATR: rolling(window=period).mean() of the true range, NaN for the
\* first period - 1 bars
calculate_atr(bars, period) ==
    LET tr == [j \in 1..Len(bars) |-> true_range(bars, j - 1)]
    IN  [j \in 1..Len(bars) |->
            IF j < period THEN NaN
            ELSE <<Quot(SumTo(tr, j - period + 1, j), period)>>]

\* the deviation threshold of dynamic_zigzag
Deviation(bars, atr_multiplier, min_deviation) ==
    LET atr == calculate_atr(bars, ATR_PERIOD)
        n == Len(bars)
        current_price == bars[n].close
        lo == Max2(1, n - ATR_TAIL + 1)
        defined == { j \in lo..n : atr[j] # NaN }
        sums == [j \in 1..n |-> IF atr[j] # NaN THEN atr[j][1].n ELSE 0]
        \* mean of the defined ATR values of the tail
        avg_atr == Quot(SumTo(sums, lo, n), ATR_PERIOD * Cardinality(defined))
        raw == IF defined = {} \/ current_price = 0
               THEN Quot(5, 100)
               ELSE Quot(avg_atr.n * atr_multiplier, avg_atr.d * current_price)
        deviation == IF raw.d < 0 THEN Quot(-raw.n, -raw.d) ELSE raw
    IN  \* max(deviation, min_deviation)
        IF QLt(deviation, min_deviation.n, min_deviation.d)
        THEN min_deviation ELSE deviation

\* faulty variant of AboveBy: any rise above the base counts
AboveByAny(x, base, dev) == x > base

\* x > base * (1 + dev), dev.d > 0
AboveBy(x, base, dev) == x * dev.d > base * (dev.d + dev.n)

\* faulty variant of BelowBy: the threshold is taken above the base
BelowBySignSlip(x, base, dev) == x * dev.d < base * (dev.d + dev.n)

\* x < base * (1 - dev), dev.d > 0
BelowBy(x, base, dev) == x * dev.d < base * (dev.d - dev.n)

\* detector state before the loop
ZigzagInit(bars) ==
    [trend |-> 0, last_high_idx |-> 0, last_low_idx |-> 0,
     last_high |-> bars[1].high, last_low |-> bars[1].low, pivots |-> <<>>]

Pivot(idx, type, val) == [idx |-> idx, type |-> type, val |-> val]

\* Flat: the up trend is confirmed, the running low becomes a Low pivot
ConfirmUp(st, i, curr_high) ==
    [st EXCEPT !.trend = 1,
               !.pivots = Append(@, Pivot(st.last_low_idx, -1, st.last_low)),
               !.last_high_idx = i, !.last_high = curr_high]

\* Flat: the down trend is confirmed, the running high becomes a High pivot
ConfirmDown(st, i, curr_low) ==
    [st EXCEPT !.trend = -1,
               !.pivots = Append(@, Pivot(st.last_high_idx, 1, st.last_high)),
               !.last_low_idx = i, !.last_low = curr_low]

\* Flat, nothing confirmed: extend the extremes the bar improves
ExtendFlat(st, i, curr_high, curr_low) ==
    LET s1 == IF curr_high > st.last_high
              THEN [st EXCEPT !.last_high = curr_high, !.last_high_idx = i]
              ELSE st
    IN  IF curr_low < st.last_low
        THEN [s1 EXCEPT !.last_low = curr_low, !.last_low_idx = i]
        ELSE s1

\* faulty variant of ReverseDown: the pivot is typed as in the Down branch
ReverseDownWrongType(st, i, curr_low) ==
    [st EXCEPT !.trend = -1,
               !.pivots = Append(@, Pivot(st.last_high_idx, -1, st.last_high)),
               !.last_low = curr_low, !.last_low_idx = i]

\* Up: an accepted reversal to the down trend
ReverseDown(st, i, curr_low) ==
    [st EXCEPT !.trend = -1,
               !.pivots = Append(@, Pivot(st.last_high_idx, 1, st.last_high)),
               !.last_low = curr_low, !.last_low_idx = i]

\* faulty variant of ReverseUp: the running high's index is left stale
ReverseUpStaleIndex(st, i, curr_high) ==
    [st EXCEPT !.trend = 1,
               !.pivots = Append(@, Pivot(st.last_low_idx, -1, st.last_low)),
               !.last_high = curr_high]

\* Down: an accepted reversal to the up trend
ReverseUp(st, i, curr_high) ==
    [st EXCEPT !.trend = 1,
               !.pivots = Append(@, Pivot(st.last_low_idx, -1, st.last_low)),
               !.last_high = curr_high, !.last_high_idx = i]

\* faulty variant of MinBarsOk: the constraint is never applied
MinBarsIgnored(i, ext_idx, min_bars) == TRUE

\* the min bars constraint on a reversal away from the extreme at ext_idx
MinBarsOk(i, ext_idx, min_bars) == (i - ext_idx) >= min_bars \/ min_bars = 0

\* one iteration of the loop: bar i (0-based, i >= 1)
ZigzagStep(st, i, bars, deviation_pct, min_bars) ==
    LET curr_high == bars[i + 1].high
        curr_low == bars[i + 1].low
    IN  IF st.trend = 0 THEN
            IF AboveBy(curr_high, st.last_low, deviation_pct)
            THEN ConfirmUp(st, i, curr_high)
            ELSE IF BelowBy(curr_low, st.last_high, deviation_pct)
            THEN ConfirmDown(st, i, curr_low)
            ELSE ExtendFlat(st, i, curr_high, curr_low)
        ELSE IF st.trend = 1 THEN
            IF curr_high > st.last_high
            THEN [st EXCEPT !.last_high = curr_high, !.last_high_idx = i]
            ELSE IF BelowBy(curr_low, st.last_high, deviation_pct)
                    /\ MinBarsOk(i, st.last_high_idx, min_bars)
            THEN ReverseDown(st, i, curr_low)
            ELSE st
        ELSE
            IF curr_low < st.last_low
            THEN [st EXCEPT !.last_low = curr_low, !.last_low_idx = i]
            ELSE IF AboveBy(curr_high, st.last_low, deviation_pct)
                    /\ MinBarsOk(i, st.last_low_idx, min_bars)
            THEN ReverseUp(st, i, curr_high)
            ELSE st

RECURSIVE ZigzagLoop(_, _, _, _, _)
\* detector state after bars 1..i of the loop (the state before the loop
\* when i = 0)
ZigzagLoop(i, bars, deviation_pct, min_bars, st0) ==
    IF i = 0 THEN st0
    ELSE ZigzagStep(ZigzagLoop(i - 1, bars, deviation_pct, min_bars, st0),
                    i, bars, deviation_pct, min_bars)

\* faulty variant of ZigzagFinal: no pending pivot is added
ZigzagFinalDropped(st) == st.pivots

\* the final pending pivot
ZigzagFinal(st) ==
    IF st.trend = 1 THEN Append(st.pivots, Pivot(st.last_high_idx, 1, st.last_high))
    ELSE IF st.trend = -1 THEN Append(st.pivots, Pivot(st.last_low_idx, -1, st.last_low))
    ELSE st.pivots

\* the list `pivots` of zigzag_pivots, in emission order
ZigzagPivotList(bars, deviation_pct, min_bars) ==
    ZigzagFinal(ZigzagLoop(Len(bars) - 1, bars, deviation_pct, min_bars,
                           ZigzagInit(bars)))

RECURSIVE WriteSeries(_, _, _)
\* the loop that writes the first k pivots into the two bar-aligned series
\* (a later pivot at the same index overwrites an earlier one)
WriteSeries(series, plist, k) ==
    IF k = 0 THEN series
    ELSE LET prev == WriteSeries(series, plist, k - 1)
             p == plist[k]
         IN  [pivot_series |-> [prev.pivot_series EXCEPT ![p.idx + 1] = <<p.val>>],
              type_series |-> [prev.type_series EXCEPT ![p.idx + 1] = p.type]]

zigzag_pivots(bars, deviation_pct, min_bars) ==
    LET plist == ZigzagPivotList(bars, deviation_pct, min_bars)
        empty == [pivot_series |-> [j \in 1..Len(bars) |-> NaN],
                  type_series |-> [j \in 1..Len(bars) |-> 0]]
    IN  WriteSeries(empty, plist, Len(plist))

dynamic_zigzag(bars, atr_multiplier, min_deviation, min_bars) ==
    zigzag_pivots(bars, Deviation(bars, atr_multiplier, min_deviation), min_bars)

-----------------------------------------------------------------------------
(* strategy.py                                                             *)

None == <<>>

RECURSIVE ewm_mean(_, _, _)
\* close.ewm(span=span, adjust=False).mean() over bars 1..k, in fixed
\* point (value * EMA_SCALE, rounded down): alpha = 2 / (span + 1)
ewm_mean(bars, span, k) ==
    IF k = 1 THEN <<bars[1].close * EMA_SCALE>>
    ELSE LET prev == ewm_mean(bars, span, k - 1)
         IN  Append(prev, (2 * bars[k].close * EMA_SCALE + (span - 1) * prev[k - 1])
                          \div (span + 1))

\* RSI over `period` bars: 100 * gain / (gain + loss) of the last `period`
\* close-to-close changes; NaN while fewer than `period` changes exist and
\* when nothing moved
calculate_rsi(bars) ==
    LET delta == [j \in 1..Len(bars) |->
                     IF j = 1 THEN 0 ELSE bars[j].close - bars[j - 1].close]
        gain == [j \in 1..Len(bars) |-> IF delta[j] > 0 THEN delta[j] ELSE 0]
        loss == [j \in 1..Len(bars) |-> IF delta[j] < 0 THEN -delta[j] ELSE 0]
    IN  [j \in 1..Len(bars) |->
            IF j <= RSI_PERIOD THEN NaN
            ELSE LET g == SumTo(gain, j - RSI_PERIOD + 1, j)
                     l == SumTo(loss, j - RSI_PERIOD + 1, j)
                 IN  IF g + l = 0 THEN NaN ELSE <<Quot(100 * g, g + l)>>]

\* the dense list pivot_data: the non-NaN entries of the pivot series in
\* ascending bar order, each with its type
PivotData(pivot_series, type_series) ==
    LET idxs == SelectSeq([j \in 1..Len(pivot_series) |-> j],
                          LAMBDA j : pivot_series[j] # NaN)
    IN  [k \in 1..Len(idxs) |->
            [date |-> idxs[k] - 1, price |-> pivot_series[idxs[k]][1],
             type |-> type_series[idxs[k]]]]

\* sum of the volume over the label slice df.loc[a:b] (both ends included)
VolumeSum(bars, a, b) ==
    SumTo([j \in 1..Len(bars) |-> bars[j].volume], a + 1, b + 1)

\* the gates shared by both directions, after the trend gate:
\* Fibonacci, volume, time symmetry
GatesPass(bars, pA, pB, pC, args, retracement_pct) ==
    LET impulse_len == pB.date - pA.date + 1
        retracement_len == pC.date - pB.date + 1
        \* mean volumes, compared by cross-multiplication
        impulse_vol == VolumeSum(bars, pA.date, pB.date) * retracement_len
        retracement_vol == VolumeSum(bars, pB.date, pC.date) * impulse_len
    IN  /\ args.strict_fib =>
              (~QLt(retracement_pct, 382, 1000) /\ ~QGt(retracement_pct, 786, 1000))
        /\ args.use_volume_filter => ~(retracement_vol >= impulse_vol)
        /\ args.use_time_filter => ~(retracement_len > impulse_len * 2)

MeasuredMove(pA, pB, pC, target, direction, current_price, retracement_pct) ==
    [start_idx |-> pA.date, mid_idx |-> pB.date, end_idx |-> pC.date,
     start_price |-> pA.price, mid_price |-> pB.price, end_price |-> pC.price,
     projected_target |-> target, direction |-> direction,
     current_price_at_analysis |-> current_price,
     proximity_to_c_pct |-> Quot(Abs(current_price - pC.price), pC.price),
     proximity_to_d_pct |-> Quot(Abs(current_price - target), target),
     retracement_pct |-> retracement_pct]

\* faulty variant of HigherLow: the constraint is dropped
HigherLowOff(pA, pC) == TRUE

\* the Higher Low constraint of a Bullish triplet
HigherLow(pA, pC) == pC.price > pA.price

\* faulty variant of LowerHigh: the constraint is dropped
LowerHighOff(pA, pC) == TRUE

\* the Lower High constraint of a Bearish triplet
LowerHigh(pA, pC) == pC.price < pA.price

\* faulty variant of RetracementPct: the division is not guarded
RetracementPctUnguarded(retracement, impulse_move) ==
    Quot(retracement, impulse_move)

\* retracement / impulse_move if impulse_move != 0 else 0
RetracementPct(retracement, impulse_move) ==
    IF impulse_move # 0 THEN Quot(retracement, impulse_move) ELSE Quot(0, 1)

\* faulty variant of BullishTarget: the impulse is subtracted as in the Bearish branch
BullishTargetSubtracted(pC, impulse_move) == pC.price - impulse_move

\* the Bullish projection from C
BullishTarget(pC, impulse_move) == pC.price + impulse_move

\* faulty variant of BearishTarget: the impulse is added as in the Bullish branch
BearishTargetAdded(pC, impulse_move) == pC.price + impulse_move

\* the Bearish projection from C
BearishTarget(pC, impulse_move) == pC.price - impulse_move

\* faulty variant of Overbought: an undefined RSI rejects as well
OverboughtOrUndefined(rsi_val) ==
    rsi_val = NaN \/ QGt(rsi_val[1], RSI_OVERBOUGHT, 1)

\* rsi_val > 70, which is False when rsi_val is NaN
Overbought(rsi_val) == rsi_val # NaN /\ QGt(rsi_val[1], RSI_OVERBOUGHT, 1)

\* rsi_val < 30, which is False when rsi_val is NaN
Oversold(rsi_val) == rsi_val # NaN /\ QLt(rsi_val[1], RSI_OVERSOLD, 1)

\* the Bullish branch for one triplet: <<move>> when accepted, <<>> when not
BullishMove(bars, pA, pB, pC, args, ema_200, rsi_series) ==
    LET impulse_move == pB.price - pA.price
        retracement == pB.price - pC.price
        retracement_pct == RetracementPct(retracement, impulse_move)
        rsi_val == rsi_series[pC.date + 1]
        target == BullishTarget(pC, impulse_move)
    IN  IF /\ HigherLow(pA, pC)
           /\ (args.use_ema_filter /\ ema_200 # None)
                 => ~(pC.price * EMA_SCALE < ema_200[pC.date + 1])
           /\ GatesPass(bars, pA, pB, pC, args, retracement_pct)
           /\ (args.use_rsi_filter /\ rsi_series # None) => ~Overbought(rsi_val)
        THEN <<MeasuredMove(pA, pB, pC, target, "Bullish",
                            bars[Len(bars)].close, retracement_pct)>>
        ELSE <<>>

\* the Bearish branch for one triplet
BearishMove(bars, pA, pB, pC, args, ema_200, rsi_series) ==
    LET impulse_move == pA.price - pB.price
        retracement == pC.price - pB.price
        retracement_pct == RetracementPct(retracement, impulse_move)
        rsi_val == rsi_series[pC.date + 1]
        target == BearishTarget(pC, impulse_move)
    IN  IF /\ LowerHigh(pA, pC)
           /\ (args.use_ema_filter /\ ema_200 # None)
                 => ~(pC.price * EMA_SCALE > ema_200[pC.date + 1])
           /\ GatesPass(bars, pA, pB, pC, args, retracement_pct)
           /\ (args.use_rsi_filter /\ rsi_series # None) => ~Oversold(rsi_val)
        THEN <<MeasuredMove(pA, pB, pC, target, "Bearish",
                            bars[Len(bars)].close, retracement_pct)>>
        ELSE <<>>

\* the body of the scan loop for the triplet starting at pivot_data[i]
\* (0-based i)
TripletMoves(bars, pivot_data, i, args, ema_200, rsi_series) ==
    LET pA == pivot_data[i + 1]
        pB == pivot_data[i + 2]
        pC == pivot_data[i + 3]
    IN  IF pA.type = -1 /\ pB.type = 1 /\ pC.type = -1
        THEN BullishMove(bars, pA, pB, pC, args, ema_200, rsi_series)
        ELSE IF pA.type = 1 /\ pB.type = -1 /\ pC.type = 1
        THEN BearishMove(bars, pA, pB, pC, args, ema_200, rsi_series)
        ELSE <<>>

RECURSIVE ScanLoop(_, _, _, _, _, _)
\* the moves appended by iterations start..i of the scan loop, in order
ScanLoop(bars, pivot_data, start, i, args, aux) ==
    IF i < start THEN <<>>
    ELSE ScanLoop(bars, pivot_data, start, i - 1, args, aux)
         \o TripletMoves(bars, pivot_data, i, args, aux.ema_200, aux.rsi_series)

\* faulty variant of StartIndex: the scan starts at the oldest pivot
StartIndexZero(n) == 0

\* start_index of the scan loop over n pivots
StartIndex(n) == Max2(0, n - SCAN_WINDOW)

\* the moves one analyze call appends to self.moves, given its pivot_data
PatternMoves(bars, pivot_data, args) ==
    LET aux == [ema_200 |-> IF args.use_ema_filter
                            THEN ewm_mean(bars, EMA_SPAN, Len(bars)) ELSE None,
                rsi_series |-> IF args.use_rsi_filter
                               THEN calculate_rsi(bars) ELSE None]
        start_index == StartIndex(Len(pivot_data))
    IN  IF Len(pivot_data) < 3 THEN <<>>
        ELSE ScanLoop(bars, pivot_data, start_index, Len(pivot_data) - 3, args, aux)

\* self.moves[-5:]
LastMoves(ms) ==
    IF Len(ms) <= ACTIVE_MOVES THEN ms
    ELSE SubSeq(ms, Len(ms) - ACTIVE_MOVES + 1, Len(ms))

-----------------------------------------------------------------------------
(* The strategy object and the calls made on it.                           *)

\* min_deviation: the default of dynamic_zigzag, which analyze never overrides
MIN_DEVIATION == Quot(1, 100)

\* the gate toggles a call may set: none, the Fibonacci gate, all of them
GateChoices ==
    LET off == [strict_fib |-> FALSE, use_ema_filter |-> FALSE,
                use_volume_filter |-> FALSE, use_time_filter |-> FALSE,
                use_rsi_filter |-> FALSE]
    IN  { off,
          [off EXCEPT !.strict_fib = TRUE],
          [strict_fib |-> TRUE, use_ema_filter |-> TRUE,
           use_volume_filter |-> TRUE, use_time_filter |-> TRUE,
           use_rsi_filter |-> TRUE] }

\* (atr_multiplier, min_bars) of a call
Sensitivities == { <<3, 0>>, <<6, 2>> }

AnalyzeArgs ==
    { [atr_multiplier |-> s[1], min_bars |-> s[2],
       strict_fib |-> g.strict_fib, use_ema_filter |-> g.use_ema_filter,
       use_volume_filter |-> g.use_volume_filter,
       use_time_filter |-> g.use_time_filter,
       use_rsi_filter |-> g.use_rsi_filter] :
      s \in Sensitivities, g \in GateChoices }

\* MeasuredMoveStrategy(symbol, df)
Init ==
    /\ df \in BarSeries
    /\ pivots = None
    /\ pivot_types = None
    /\ moves = <<>>
    /\ last_args = None
    /\ new_moves = <<>>
    /\ ncalls = 0
    /\ active = <<>>
    /\ det = None
    /\ scan = None

\* strategy.analyze(**args)
analyze(args) ==
    /\ ncalls < MaxCalls
    /\ LET z == dynamic_zigzag(df, args.atr_multiplier, MIN_DEVIATION, args.min_bars)
           pivot_data == PivotData(z.pivot_series, z.type_series)
       IN  /\ pivots' = z.pivot_series
           /\ pivot_types' = z.type_series
           /\ moves' = moves \o PatternMoves(df, pivot_data, args)
           /\ new_moves' = PatternMoves(df, pivot_data, args)
    /\ last_args' = args
    /\ ncalls' = ncalls + 1
    /\ UNCHANGED <<df, active, det, scan>>

\* strategy.get_active_moves()
get_active_moves ==
    /\ active' = LastMoves(moves)
    /\ UNCHANGED <<df, pivots, pivot_types, moves, last_args, new_moves, ncalls,
                 det, scan>>

Next ==
    \/ \E args \in AnalyzeArgs : analyze(args)
    \/ get_active_moves

Spec == Init /\ [][Next]_vars

-----------------------------------------------------------------------------
(* The pattern matcher as a function of an arbitrary pivot series: the     *)
(* second half of analyze applied to pivots the detector need not produce. *)

\* bars of a series handed to the pattern matcher
PatLen == 4

PatternPrices == { 100, 120, 150 }

\* one entry of a pivot series with its type: no pivot, or a High / Low
PivotEntries ==
    { <<NaN, 0>> } \cup { <<<<v>>, t>> : v \in PatternPrices, t \in { 1, -1 } }

InitPattern ==
    /\ df \in { FlatTail(<<b>>, PatLen) : b \in BarSet }
    /\ \E es \in [1..PatLen -> PivotEntries] :
          /\ pivots = [j \in 1..PatLen |-> es[j][1]]
          /\ pivot_types = [j \in 1..PatLen |-> es[j][2]]
    /\ moves = <<>>
    /\ last_args = None
    /\ new_moves = <<>>
    /\ ncalls = 0
    /\ active = <<>>
    /\ det = None
    /\ scan = None

\* steps 2 of analyze (pivot_data, the scan loop) on the given pivot series
match_patterns(args) ==
    /\ ncalls = 0
    /\ LET pivot_data == PivotData(pivots, pivot_types)
       IN  /\ moves' = moves \o PatternMoves(df, pivot_data, args)
           /\ new_moves' = PatternMoves(df, pivot_data, args)
    /\ last_args' = args
    /\ ncalls' = ncalls + 1
    /\ UNCHANGED <<df, pivots, pivot_types, active, det, scan>>

NextPattern ==
    \/ \E args \in AnalyzeArgs : match_patterns(args)
    \/ get_active_moves

SpecPattern == InitPattern /\ [][NextPattern]_vars

-----------------------------------------------------------------------------
(* The pattern matcher over series long enough for an RSI: the closes rise *)
(* by g, fall by l and then stay, so that the RSI of the bar RSI_PERIOD    *)
(* changes later is 100 * g / (g + l).                                     *)

\* the last bars of a series that may hold a pivot
MomentumPivots == 3

\* (g, l): RSI 70, 30, 80, 20
MomentumChanges == { <<7, 3>>, <<3, 7>>, <<8, 2>>, <<2, 8>> }

\* n bars closing at 100, 100 + g, 100 + g - l, ...; the volume falls bar
\* by bar
MomentumBars(g, l, n) ==
    [j \in 1..n |->
        LET c == IF j = 1 THEN 100 ELSE IF j = 2 THEN 100 + g ELSE 100 + g - l
        IN  Bar(c, c, c, 100 - j)]

MomentumSeries ==
    { MomentumBars(c[1], c[2], RSI_PERIOD + 1 + k) :
        c \in MomentumChanges, k \in 0..MaxPad }

\* the calls of AnalyzeArgs, each also with the Momentum gate alone toggled
MomentumArgs ==
    { [a EXCEPT !.use_rsi_filter = r] : a \in AnalyzeArgs, r \in BOOLEAN }

InitMomentum ==
    /\ df \in MomentumSeries
    /\ \E es \in [1..MomentumPivots -> PivotEntries] :
          LET first == Len(df) - MomentumPivots
          IN  /\ pivots = [j \in 1..Len(df) |->
                              IF j > first THEN es[j - first][1] ELSE NaN]
              /\ pivot_types = [j \in 1..Len(df) |->
                                   IF j > first THEN es[j - first][2] ELSE 0]
    /\ moves = <<>>
    /\ last_args = None
    /\ new_moves = <<>>
    /\ ncalls = 0
    /\ active = <<>>
    /\ det = None
    /\ scan = None

NextMomentum ==
    \/ \E args \in MomentumArgs : match_patterns(args)
    \/ get_active_moves

SpecMomentum == InitMomentum /\ [][NextMomentum]_vars

-----------------------------------------------------------------------------
(* zigzag_pivots called on its own, one loop iteration at a time: the      *)
(* series, the deviation and min_bars are the caller's.                    *)

\* longest bar series handed to zigzag_pivots
MaxZigzagBars == 5
\* largest min_bars handed to zigzag_pivots
MaxMinBars == 2

\* high and low are all the detector reads of a bar
ZigzagBarSet ==
    { Bar(100, 100, 100, 10), Bar(103, 101, 102, 10),
      Bar(130, 120, 125, 20), Bar(150, 20, 100, 30) }

\* deviation_pct of a call (0.05 is the default)
Deviations == { Quot(1, 100), Quot(5, 100), Quot(30, 100) }

InitZigzag ==
    /\ df \in SeriesUpTo(ZigzagBarSet, MaxZigzagBars)
    /\ \E deviation_pct \in Deviations, min_bars \in 0..MaxMinBars :
          det = [deviation_pct |-> deviation_pct, min_bars |-> min_bars,
                 i |-> 1, st |-> ZigzagInit(df), returned |-> None]
    /\ pivots = None
    /\ pivot_types = None
    /\ moves = <<>>
    /\ last_args = None
    /\ new_moves = <<>>
    /\ ncalls = 0
    /\ active = <<>>
    /\ scan = None

\* one iteration of `for i in range(1, len(df))`
zigzag_bar ==
    /\ det.returned = None
    /\ det.i < Len(df)
    /\ det' = [det EXCEPT !.st = ZigzagStep(det.st, det.i, df,
                                            det.deviation_pct, det.min_bars),
                          !.i = det.i + 1]
    /\ UNCHANGED <<df, pivots, pivot_types, moves, last_args, new_moves,
                   ncalls, active, scan>>

\* after the loop: the final pending pivot, the two series, the return
zigzag_return ==
    /\ det.returned = None
    /\ det.i >= Len(df)
    /\ LET plist == ZigzagFinal(det.st)
           empty == [pivot_series |-> [j \in 1..Len(df) |-> NaN],
                     type_series |-> [j \in 1..Len(df) |-> 0]]
           z == WriteSeries(empty, plist, Len(plist))
       IN  /\ det' = [det EXCEPT !.returned = <<plist>>]
           /\ pivots' = z.pivot_series
           /\ pivot_types' = z.type_series
    /\ UNCHANGED <<df, moves, last_args, new_moves, ncalls, active, scan>>

NextZigzag ==
    \/ zigzag_bar
    \/ zigzag_return

SpecZigzag == InitZigzag /\ [][NextZigzag]_vars

-----------------------------------------------------------------------------
(* The batch scans: run_daily_scan (daily_scan.py), run_batch              *)
(* (batch_run.py) and the Run Scan loop (app.py).  What fetching and       *)
(* analysing a symbol comes to is the market's: an exception in            *)
(* fetch_data, an exception in the analysis, or a number of result rows    *)
(* (run_batch then plots, which may raise after the rows were appended).   *)

\* symbols of a scan list
MaxSymbols == 3
\* result rows one symbol contributes
MaxRows == 1

Symbols == { "AAPL", "MSFT", "SPY" }

ScanLoops == { "run_daily_scan", "run_batch", "app" }

Outcome(error, rows) == [error |-> error, rows |-> rows]

Outcomes ==
    { Outcome("fetch", 0), Outcome("analysis", 0) }
    \cup { Outcome("none", n) : n \in 0..MaxRows }
    \cup { Outcome("plot", n) : n \in 1..MaxRows }

\* the lists of distinct symbols (list(set(...)) in run_daily_scan)
SymbolLists ==
    { l \in SeriesUpTo(Symbols, MaxSymbols) :
        \A j, k \in 1..Len(l) : j # k => l[j] # l[k] }

\* the rows results.append adds for a symbol with n reported moves
Rows(symbol, n) == [k \in 1..n |-> [Symbol |-> symbol, Move |-> k]]

\* the exception the try block raises for the outcome, "none" if none:
\* only run_batch plots
Raised(loop, outcome) ==
    IF outcome.error = "plot" /\ loop # "run_batch" THEN "none" ELSE outcome.error

\* results after the try block of one symbol
AppendedRows(results, loop, symbol, outcome) ==
    IF outcome.error \in { "fetch", "analysis" } THEN results
    ELSE results \o Rows(symbol, outcome.rows)

\* the except clause: run_batch prints the error, the other two pass
Reported(errors, loop, symbol, outcome) ==
    IF Raised(loop, outcome) # "none" /\ loop = "run_batch"
    THEN Append(errors, symbol) ELSE errors

InitBatch ==
    /\ \E loop \in ScanLoops, symbols \in SymbolLists,
          market \in [Symbols -> Outcomes] :
          scan = [loop |-> loop, symbols |-> symbols, market |-> market,
                  i |-> 0, results |-> <<>>, errors |-> <<>>, finished |-> FALSE]
    /\ df = <<>>
    /\ pivots = None
    /\ pivot_types = None
    /\ moves = <<>>
    /\ last_args = None
    /\ new_moves = <<>>
    /\ ncalls = 0
    /\ active = <<>>
    /\ det = None

\* one iteration of the for loop: the try block and its except clause
scan_symbol ==
    /\ scan.i < Len(scan.symbols)
    /\ LET symbol == scan.symbols[scan.i + 1]
           outcome == scan.market[symbol]
       IN  scan' = [scan EXCEPT
                      !.results = AppendedRows(@, scan.loop, symbol, outcome),
                      !.errors = Reported(@, scan.loop, symbol, outcome),
                      !.i = scan.i + 1]
    /\ UNCHANGED <<df, pivots, pivot_types, moves, last_args, new_moves,
                   ncalls, active, det>>

\* after the loop: the results are reported / stored
scan_finish ==
    /\ scan.i = Len(scan.symbols)
    /\ ~scan.finished
    /\ scan' = [scan EXCEPT !.finished = TRUE]
    /\ UNCHANGED <<df, pivots, pivot_types, moves, last_args, new_moves,
                   ncalls, active, det>>

NextBatch ==
    \/ scan_symbol
    \/ scan_finish

SpecBatch == InitBatch /\ [][NextBatch]_vars

-----------------------------------------------------------------------------
(* Properties.                                                             *)

\* the dense pivot list of the latest analysis
pivot_data_now == PivotData(pivots, pivot_types)

Analyzed == ncalls >= 1

MoveSet(ms) == { ms[k] : k \in 1..Len(ms) }

InFibBand(q) == ~QLt(q, 382, 1000) /\ ~QGt(q, 786, 1000)

\* C1: in the pivot sequence zigzag_pivots produces, read in ascending bar
\* order, every pivot is a High or a Low and no two consecutive pivots have
\* the same type (the forced final pivot included).
C1_PivotsAlternate ==
    Analyzed =>
        /\ \A k \in 1..Len(pivot_data_now) : pivot_data_now[k].type \in { 1, -1 }
        /\ \A k \in 1..(Len(pivot_data_now) - 1) :
              pivot_data_now[k].type # pivot_data_now[k + 1].type

\* a run that produced five pivots, the last of them forced
C1_Witness == Analyzed /\ Len(pivot_data_now) >= 5

\* the detector state after bar i (0-based) when analyze runs it over bars
DetectorAfter(bars, i, args) ==
    ZigzagLoop(i, bars, Deviation(bars, args.atr_multiplier, MIN_DEVIATION),
               args.min_bars, ZigzagInit(bars))

\* C2: pivot detection as invoked by analyze is causal: the trend, the
\* running extremes and the pivots emitted after bar i are the same for the
\* analysed series and for any series that agrees with it on bars 0..i, in
\* particular for the series that ends at bar i.
C2_Causal ==
    Analyzed =>
        \A i \in 0..(Len(df) - 1) :
            DetectorAfter(df, i, last_args)
                = DetectorAfter(SubSeq(df, 1, i + 1), i, last_args)

\* the triplet of consecutive pivots starting at pivot_data[i + 1] is the
\* A, B, C of Move m
IsTriplet(pd, i, m) ==
    /\ pd[i + 1].date = m.start_idx /\ pd[i + 1].price = m.start_price
    /\ pd[i + 2].date = m.mid_idx /\ pd[i + 2].price = m.mid_price
    /\ pd[i + 3].date = m.end_idx /\ pd[i + 3].price = m.end_price

\* C3: every Move analyze has created is Bullish with price(C) > price(A)
\* or Bearish with price(C) < price(A), and every Move the latest call
\* created is built on three consecutive pivots of that call's pivot
\* sequence, of types (Low, High, Low) when Bullish and (High, Low, High)
\* when Bearish.
C3_MoveShape ==
    /\ \A m \in MoveSet(moves) :
          \/ m.direction = "Bullish" /\ m.end_price > m.start_price
          \/ m.direction = "Bearish" /\ m.end_price < m.start_price
    /\ \A m \in MoveSet(new_moves) :
          \E i \in 0..(Len(pivot_data_now) - 3) :
              /\ IsTriplet(pivot_data_now, i, m)
              /\ <<pivot_data_now[i + 1].type, pivot_data_now[i + 2].type,
                   pivot_data_now[i + 3].type>>
                    = IF m.direction = "Bullish" THEN <<-1, 1, -1>> ELSE <<1, -1, 1>>

\* a call that rejected a Low-High-Low triplet whose C is not above A, on
\* an object that holds a Bullish and a Bearish Move
C3_Witness ==
    /\ \E m \in MoveSet(new_moves) : m.direction = "Bullish"
    /\ \E m \in MoveSet(new_moves) : m.direction = "Bearish"
    /\ \E i \in 0..(Len(pivot_data_now) - 3) :
          /\ i >= Len(pivot_data_now) - SCAN_WINDOW
          /\ pivot_data_now[i + 1].type = -1
          /\ pivot_data_now[i + 3].price <= pivot_data_now[i + 1].price
          /\ \A m \in MoveSet(new_moves) : ~IsTriplet(pivot_data_now, i, m)

\* C4: the projected target D of a Bullish Move is
\* price(C) + (price(B) - price(A)), that of a Bearish Move is
\* price(C) - (price(A) - price(B)).
C4_Target ==
    \A m \in MoveSet(moves) :
        /\ m.direction = "Bullish" =>
              m.projected_target = m.end_price + (m.mid_price - m.start_price)
        /\ m.direction = "Bearish" =>
              m.projected_target = m.end_price - (m.start_price - m.mid_price)

\* Moves of both directions have been projected
C4_Witness ==
    /\ \E m \in MoveSet(moves) : m.direction = "Bullish"
    /\ \E m \in MoveSet(moves) : m.direction = "Bearish"

\* the value of the quotient q is num / den when den # 0 and 0 when den = 0,
\* and q was computed without dividing by zero
IsGuardedRatio(q, num, den) ==
    /\ q.d # 0
    /\ IF den # 0 THEN QEq(q, num, den) ELSE q.n = 0

\* C5: retracement_pct of a Bullish Move is
\* (price(B) - price(C)) / (price(B) - price(A)), that of a Bearish Move is
\* (price(C) - price(B)) / (price(A) - price(B)); when the impulse is 0 it
\* is 0 and nothing was divided by zero.
C5_Retracement ==
    \A m \in MoveSet(moves) :
        /\ m.direction = "Bullish" =>
              IsGuardedRatio(m.retracement_pct, m.mid_price - m.end_price,
                             m.mid_price - m.start_price)
        /\ m.direction = "Bearish" =>
              IsGuardedRatio(m.retracement_pct, m.end_price - m.mid_price,
                             m.start_price - m.mid_price)

\* a Bullish Move with a zero impulse beside a Bearish Move with a non-zero
\* impulse and a non-zero retracement
C5_Witness ==
    /\ \E m \in MoveSet(moves) :
          m.direction = "Bullish" /\ m.mid_price = m.start_price
    /\ \E m \in MoveSet(moves) :
          m.direction = "Bearish" /\ m.mid_price # m.start_price
             /\ m.mid_price # m.end_price

\* C6: proximity_to_c_pct >= 0 and proximity_to_d_pct >= 0 for every Move
\* (all prices of the bar series being strictly positive), and neither was
\* computed by dividing by zero.
C6_ProximityNonNegative ==
    \A m \in MoveSet(moves) :
        QNonNeg(m.proximity_to_c_pct) /\ QNonNeg(m.proximity_to_d_pct)

\* C7: when the latest analyze call had strict_fib=True, every Move
\* get_active_moves returns has retracement_pct in [0.382, 0.786],
\* whatever calls were made before.
C7_FibGate ==
    (Analyzed /\ last_args.strict_fib) =>
        \A m \in MoveSet(LastMoves(moves)) : InFibBand(m.retracement_pct)

\* C8: get_active_moves returns at most 5 Moves, the last accepted ones, in
\* ascending order of the position of their A pivot.
C8_LastFiveAscending ==
    LET r == LastMoves(moves)
    IN  /\ Len(r) <= ACTIVE_MOVES
        /\ \A k \in 1..Len(r) : r[k] = moves[Len(moves) - Len(r) + k]
        /\ \A k \in 1..(Len(r) - 1) : r[k].start_idx < r[k + 1].start_idx

\* C9: the Moves visible after an analyze call are exactly those that call
\* accepted; nothing is carried over from earlier calls.
C9_NoCarryOver == Analyzed => moves = new_moves

\* C10: when the pivot sequence of an analyze call has fewer than 3 pivots,
\* the Move list is empty.
C10_FewPivotsNoMoves ==
    (Analyzed /\ Len(pivot_data_now) < 3) =>
        moves = <<>> /\ LastMoves(moves) = <<>>

-----------------------------------------------------------------------------
(* Properties of zigzag_pivots (SpecZigzag).                               *)

\* every bar's high and low are strictly above the previous bar's
StrictlyIncreasing(bars) ==
    \A j \in 2..Len(bars) :
        bars[j].high > bars[j - 1].high /\ bars[j].low > bars[j - 1].low

Returned == det # None /\ det.returned # None

\* C11: on a strictly increasing bar series (positive prices, deviation
\* between 0 and 1, any min_bars) the detector never enters the Down trend,
\* whether from Flat or from Up; it emits no High pivot before the forced
\* final one, and the only pivot that can precede the final one is the
\* initial Low emitted when the Up trend is confirmed.
C11_RisingSeries ==
    (det # None /\ StrictlyIncreasing(df)) =>
        /\ det.st.trend \in { 0, 1 }
        /\ Len(det.st.pivots) = (IF det.st.trend = 1 THEN 1 ELSE 0)
        /\ \A k \in 1..Len(det.st.pivots) : det.st.pivots[k].type = -1
        /\ det.returned # None =>
              LET r == det.returned[1]
              IN  /\ Len(r) <= 2
                  /\ \A k \in 1..(Len(r) - 1) : r[k].type = -1

\* a rising series of three bars, run to its end with min_bars set, that
\* produced the initial Low and the forced High
C11_Witness ==
    /\ Returned
    /\ StrictlyIncreasing(df)
    /\ Len(df) >= 3
    /\ det.min_bars > 0
    /\ Len(det.returned[1]) = 2

\* C16: with min_bars = m > 0, any two consecutive pivots of the produced
\* sequence (the first pivot emitted on leaving Flat and the forced final
\* pivot included) lie at bar indexes at least m apart.
C16_MinBarsGap ==
    (Returned /\ det.min_bars > 0) =>
        LET r == det.returned[1]
        IN  \A k \in 1..(Len(r) - 1) : r[k + 1].idx - r[k].idx >= det.min_bars

\* the next bar of the loop
NextBar == df[det.i + 1]

\* in trend Up the next bar's low is below running-high * (1 - deviation)
\* but the bar is fewer than min_bars after the running high
LowBreaksTooSoon ==
    /\ det # None /\ det.returned = None /\ det.i < Len(df)
    /\ det.st.trend = 1
    /\ BelowBy(NextBar.low, det.st.last_high, det.deviation_pct)
    /\ det.min_bars > 0
    /\ (det.i - det.st.last_high_idx) < det.min_bars

\* the mirror in trend Down
HighBreaksTooSoon ==
    /\ det # None /\ det.returned = None /\ det.i < Len(df)
    /\ det.st.trend = -1
    /\ AboveBy(NextBar.high, det.st.last_low, det.deviation_pct)
    /\ det.min_bars > 0
    /\ (det.i - det.st.last_low_idx) < det.min_bars

\* the loop's locals (trend, running extremes and their indexes, emitted
\* pivots) are the same after the step, and the next bar is up for the
\* same comparison
StepLeavesLocals == det'.st = det.st /\ det'.i = det.i + 1

\* C19 as stated: in trend Up (mirror in Down), whenever a bar's low falls
\* below running-high * (1 - deviation) fewer than min_bars > 0 bars after
\* the running high, the bar changes neither the trend, the running
\* extremes and their indexes, nor the emitted pivots.
C19_BlockedReversalAsStated ==
    [][(LowBreaksTooSoon \/ HighBreaksTooSoon) => StepLeavesLocals]_vars

\* C19 amended: the same, for a bar that does not itself extend the running
\* extreme of the trend (a bar whose high exceeds the running high in Up, or
\* whose low is below the running low in Down, extends it instead and is
\* never a reversal candidate).
C19_BlockedReversal ==
    [][(\/ LowBreaksTooSoon /\ ~(NextBar.high > det.st.last_high)
        \/ HighBreaksTooSoon /\ ~(NextBar.low < det.st.last_low))
       => StepLeavesLocals]_vars

\* the bar just processed was a reversal candidate in Up that came too soon
\* after the running high, and the loop goes on
C19_Witness ==
    /\ det # None /\ det.returned = None /\ det.i < Len(df)
    /\ det.st.trend = 1
    /\ det.min_bars > 0
    /\ det.i - 1 > det.st.last_high_idx
    /\ (det.i - 1 - det.st.last_high_idx) < det.min_bars
    /\ BelowBy(df[det.i].low, det.st.last_high, det.deviation_pct)

\* the pivots of the returned series, in ascending bar order
ReturnedData == PivotData(pivots, pivot_types)

\* the forced final pivot of the loop's final state
FinalPivotEmitted ==
    LET r == det.returned[1]
        st == det.st
        open == IF st.trend = 1 THEN Pivot(st.last_high_idx, 1, st.last_high)
                ELSE Pivot(st.last_low_idx, -1, st.last_low)
    IN  /\ r = Append(st.pivots, open)
        /\ Len(ReturnedData) = Len(r)
        /\ ReturnedData[Len(r)] =
              [date |-> open.idx, price |-> open.val, type |-> open.type]

\* C20 as stated: for every bar series the detector ends by emitting,
\* exactly once, one final pivot for the open running extreme: a High at
\* the running high when the final trend is Up, a Low at the running low
\* when it is Down.
C20_FinalPivotAsStated == Returned => FinalPivotEmitted

\* C20 amended: the same for every series whose final trend is Up or Down;
\* a series that never leaves Flat yields no pivot at all.
C20_FinalPivot ==
    Returned =>
        IF det.st.trend = 0 THEN det.returned[1] = <<>> /\ ReturnedData = <<>>
        ELSE FinalPivotEmitted

\* a run that ended in the Down trend after at least two confirmed pivots
C20_Witness ==
    /\ Returned
    /\ det.st.trend = -1
    /\ Len(det.returned[1]) >= 3

\* the pivots emitted so far by the call in progress, the forced final
\* one included once the call has returned
Emitted == IF det.returned # None THEN det.returned[1] ELSE det.st.pivots

\* C21: in every run of zigzag_pivots the pivots are emitted at strictly
\* increasing bar indexes, so no two share a bar index, writing them into
\* the per-bar series never overwrites an earlier pivot, and the number of
\* non-empty entries of the returned series (the length of analyze's
\* pivot_data) equals the number of pivots emitted.
C21_IncreasingIndexes ==
    det # None =>
        /\ \A k \in 1..(Len(Emitted) - 1) : Emitted[k].idx < Emitted[k + 1].idx
        /\ det.returned # None =>
              /\ Len(ReturnedData) = Len(Emitted)
              /\ \A k \in 1..Len(Emitted) :
                    ReturnedData[k] = [date |-> Emitted[k].idx,
                                       price |-> Emitted[k].val,
                                       type |-> Emitted[k].type]

\* a returned run of four pivots under a min_bars constraint
C21_Witness ==
    /\ Returned
    /\ det.min_bars > 0
    /\ Len(det.returned[1]) >= 4

\* hi > lo * (1 + dev) as the claim states it, in exact rationals
MoreThanDevAbove(hi, lo, dev) == hi * dev.d > lo * dev.d + lo * dev.n

\* lo < hi * (1 - dev) as the claim states it, in exact rationals
MoreThanDevBelow(lo, hi, dev) == lo * dev.d < hi * dev.d - hi * dev.n

\* C22: for positive prices and a deviation between 0 and 1, in every
\* produced pivot sequence a High that directly follows a Low is above
\* Low * (1 + deviation) and a Low that directly follows a High is below
\* High * (1 - deviation), the forced final pivot included.
C22_PivotsApart ==
    det # None =>
        \A k \in 1..(Len(Emitted) - 1) :
            IF Emitted[k].type = -1
            THEN /\ Emitted[k + 1].type = 1
                 /\ MoreThanDevAbove(Emitted[k + 1].val, Emitted[k].val,
                                     det.deviation_pct)
            ELSE /\ Emitted[k + 1].type = -1
                 /\ MoreThanDevBelow(Emitted[k + 1].val, Emitted[k].val,
                                     det.deviation_pct)

\* a returned run whose forced final pivot is a High after a Low after a
\* High, with rises too small to count along the way
C22_Witness ==
    /\ Returned
    /\ Len(det.returned[1]) >= 3
    /\ det.returned[1][Len(det.returned[1])].type = 1
    /\ \E j \in 2..Len(df) :
          /\ df[j].high > df[j - 1].high
          /\ ~MoreThanDevAbove(df[j].high, df[j - 1].low, det.deviation_pct)

-----------------------------------------------------------------------------
(* Properties of one analyze call (Spec).                                  *)

\* the 0-based start positions of the triplets a call over n pivots scans
ScannedStarts(n) == Max2(0, n - SCAN_WINDOW)..(n - 3)

\* the auxiliary series of the latest call
aux_now ==
    [ema_200 |-> IF last_args.use_ema_filter
                 THEN ewm_mean(df, EMA_SPAN, Len(df)) ELSE None,
     rsi_series |-> IF last_args.use_rsi_filter THEN calculate_rsi(df) ELSE None]

\* the latest call made a Move of the triplet starting at position i
Accepted(i) == \E m \in MoveSet(new_moves) : IsTriplet(pivot_data_now, i, m)

\* the scan loop's verdict on the triplet at i under the arguments a
WouldAccept(i, a) ==
    TripletMoves(df, pivot_data_now, i, a,
                 IF a.use_ema_filter THEN ewm_mean(df, EMA_SPAN, Len(df)) ELSE None,
                 IF a.use_rsi_filter THEN calculate_rsi(df) ELSE None) # <<>>

\* C12: one analyze call considers only the most recent 5 pivots: over
\* N >= 3 pivots it evaluates exactly the consecutive triplets starting at
\* positions max(0, N - 5) .. N - 3, each once and in that order, so the call
\* creates at most 3 Moves and none of them has a pivot older than the
\* 5th-most-recent as its A, B or C.
C12_ScanWindow ==
    Analyzed =>
        LET pd == pivot_data_now
            N == Len(pd)
        IN  /\ Len(new_moves) <= SCAN_WINDOW - 2
            /\ \A k \in 1..Len(new_moves) :
                  /\ \E i \in ScannedStarts(N) : IsTriplet(pd, i, new_moves[k])
                  /\ new_moves[k].start_idx >= pd[Max2(1, N - SCAN_WINDOW + 1)].date
            /\ \A k \in 1..(Len(new_moves) - 1) :
                  new_moves[k].start_idx < new_moves[k + 1].start_idx
            /\ \A i \in ScannedStarts(N) :
                  WouldAccept(i, last_args) => Accepted(i)

\* a call without gates over six pivots whose oldest triplet has a Move's
\* shape and is left out, while a triplet inside the window became a Move
C12_Witness ==
    /\ ncalls = 1
    /\ Len(pivot_data_now) > SCAN_WINDOW
    /\ new_moves # <<>>
    /\ ~last_args.strict_fib /\ ~last_args.use_rsi_filter
    /\ ~last_args.use_ema_filter /\ ~last_args.use_volume_filter
    /\ ~last_args.use_time_filter
    /\ TripletMoves(df, pivot_data_now, 0, last_args, None, None) # <<>>

\* C of the triplet starting at position i
PivotC(i) == pivot_data_now[i + 3]

\* the series has no entry at the timestamp (.loc raises KeyError)
MissingAt(series, date) == (date + 1) \notin DOMAIN series

\* the RSI has no value at the timestamp: no entry, or the entry is NaN
UndefinedAt(series, date) == MissingAt(series, date) \/ series[date + 1] = NaN

BarCount(from, to) == to - from + 1

\* bar-count(B -> C) <= 2 * bar-count(A -> B)
TimeSymmetric(a, b, c) == BarCount(b, c) <= 2 * BarCount(a, b)

\* C15: with the Time-symmetry gate enabled a triplet passes the gate iff
\* bar-count(B -> C) <= 2 * bar-count(A -> B): the call makes a Move of a
\* scanned triplet iff it would without the gate and the inequality holds;
\* and every Move returned after a call with use_time_filter = True
\* satisfies the inequality.
C15_TimeSymmetry ==
    (Analyzed /\ last_args.use_time_filter) =>
        /\ \A i \in ScannedStarts(Len(pivot_data_now)) :
              Accepted(i) <=>
                  /\ WouldAccept(i, [last_args EXCEPT !.use_time_filter = FALSE])
                  /\ TimeSymmetric(pivot_data_now[i + 1].date,
                                   pivot_data_now[i + 2].date, PivotC(i).date)
        /\ \A m \in MoveSet(LastMoves(moves)) :
              TimeSymmetric(m.start_idx, m.mid_idx, m.end_idx)

\* no gate is enabled in the latest call
NoGate ==
    /\ ~last_args.strict_fib /\ ~last_args.use_ema_filter
    /\ ~last_args.use_volume_filter /\ ~last_args.use_time_filter
    /\ ~last_args.use_rsi_filter

\* C18: when the detector surfaces exactly three pivots Low a, High b,
\* Low c with a < c < b and no gate is enabled, analyze on a fresh strategy
\* yields exactly one Move: Bullish, on those pivots, with impulse b - a,
\* retracement_pct (b - c) / (b - a) and target D = c + (b - a).
C18_Scenario ==
    LET pd == pivot_data_now
    IN  (/\ ncalls = 1 /\ NoGate
         /\ Len(pd) = 3
         /\ pd[1].type = -1 /\ pd[2].type = 1 /\ pd[3].type = -1
         /\ pd[1].price < pd[3].price /\ pd[3].price < pd[2].price)
        => /\ Len(moves) = 1
           /\ moves[1].direction = "Bullish"
           /\ IsTriplet(pd, 0, moves[1])
           /\ moves[1].projected_target - moves[1].end_price
                 = pd[2].price - pd[1].price
           /\ moves[1].retracement_pct
                 = Quot(pd[2].price - pd[3].price, pd[2].price - pd[1].price)
           /\ moves[1].projected_target
                 = pd[3].price + (pd[2].price - pd[1].price)

\* the instance Low 100, High 150, Low 120: one Bullish Move with
\* retracement 30 / 50 and target 170
C18_Witness ==
    /\ ncalls = 1 /\ NoGate
    /\ Len(pivot_data_now) = 3
    /\ <<pivot_data_now[1].price, pivot_data_now[2].price,
         pivot_data_now[3].price>> = <<100, 150, 120>>
    /\ Len(moves) = 1
    /\ moves[1].direction = "Bullish"
    /\ moves[1].retracement_pct = Quot(30, 50)
    /\ moves[1].projected_target = 170

\* the impulse of a Move: |price(B) - price(A)| in the move's direction
ImpulseOf(m) ==
    IF m.direction = "Bullish" THEN m.mid_price - m.start_price
    ELSE m.start_price - m.mid_price

\* C23: for every Move built from detector output (positive prices), the
\* impulse is strictly positive, so the zero-impulse guard is never taken
\* and retracement_pct is the quotient retracement / impulse, with
\* 0 < retracement_pct < 1; and the target D lies strictly beyond B in the
\* move's direction.
C23_MoveGeometry ==
    \A m \in MoveSet(moves) :
        /\ ImpulseOf(m) > 0
        /\ m.retracement_pct.d = ImpulseOf(m)
        /\ 0 < m.retracement_pct.n
        /\ m.retracement_pct.n < m.retracement_pct.d
        /\ IF m.direction = "Bullish" THEN m.projected_target > m.mid_price
           ELSE m.projected_target < m.mid_price

\* an object holding a Bullish and a Bearish Move, made by a call whose
\* window also held a triplet of a Move's types that was not accepted
C23_Witness ==
    /\ Analyzed
    /\ \E m \in MoveSet(new_moves) : m.direction = "Bullish"
    /\ \E m \in MoveSet(new_moves) : m.direction = "Bearish"
    /\ \E i \in ScannedStarts(Len(pivot_data_now)) : ~Accepted(i)

-----------------------------------------------------------------------------
(* Properties of the Momentum gate (SpecMomentum).                         *)

\* the RSI at C of the triplet starting at position i
RsiAtC(i) == calculate_rsi(df)[PivotC(i).date + 1]

\* the triplet starting at position i starts at a Low
StartsLow(i) == pivot_data_now[i + 1].type = -1

-----------------------------------------------------------------------------
(* Properties of the batch scans (SpecBatch).                              *)

RECURSIVE ScanResults(_, _, _, _)
\* results of a whole scan of the first k symbols of `symbols`
ScanResults(loop, symbols, market, k) ==
    IF k = 0 THEN <<>>
    ELSE AppendedRows(ScanResults(loop, symbols, market, k - 1), loop,
                      symbols[k], market[symbols[k]])

\* the symbols processed so far
Processed == SubSeq(scan.symbols, 1, scan.i)

\* the processed symbols whose try block raised
Failed ==
    { Processed[k] : k \in { j \in 1..scan.i :
         Raised(scan.loop, scan.market[Processed[j]]) # "none" } }

\* the results collected for the symbols other than f are those of the
\* same scan over the list without f
IsolatedFrom(f) ==
    LET others == SelectSeq(Processed, LAMBDA s : s # f)
    IN  SelectSeq(scan.results, LAMBDA r : r.Symbol # f)
           = ScanResults(scan.loop, others, scan.market, Len(others))

\* C17: in a batch scan a failure while fetching or analysing one symbol
\* does not abort the batch: every remaining symbol is still processed, the
\* results collected for the other symbols are the same as if the failing
\* symbol had not been in the list, and the failure is logged / reported.
C17_FailureIsolatedAndReported ==
    scan # None =>
        /\ scan.finished => scan.i = Len(scan.symbols)
        /\ \A f \in Failed : IsolatedFrom(f)
        /\ \A f \in Failed : \E k \in 1..Len(scan.errors) : scan.errors[k] = f

====
